---- MODULE Spec2Model ----
(***************************************************************************)
(* Model of jsonrpc/endpoints_debug.go (zkevm-node): the debug endpoints   *)
(* debug_traceTransaction, debug_traceBlockByNumber/ByHash and             *)
(* debug_traceBatchByNumber, and the struct-log formatter buildStructLogs. *)
(*                                                                         *)
(* Go values are encoded as follows.  A pointer or optional value is a     *)
(* sequence of length at most one: None is the nil pointer, Some(x) points *)
(* to x.  A byte is a number in 0..255, a byte slice a sequence of bytes.  *)
(* A Go string is a TLA+ string.  A map is a function.                     *)
(***************************************************************************)
EXTENDS Integers, Sequences, FiniteSets, TLC

None == <<>>
Some(x) == <<x>>

(***************************************************************************)
(* Bounds of the model.                                                    *)
(***************************************************************************)
\* longest raw step sequence given to buildStructLogs (general steps)
MaxSteps == 2
\* longest raw step sequence given to buildStructLogs (memory steps)
MaxMemSteps == 3
\* most transactions in a block
MaxBlockTxs == 2
\* most transactions in a batch
MaxBatchTxs == 3
\* a wide batch has up to bufferSize + MaxOver transactions
MaxOver == 1

(***************************************************************************)
(* Program constants.                                                      *)
(***************************************************************************)
memoryChunkSize == 32
bufferSize == 10

(***************************************************************************)
(* encoding/hex and common.Hash                                            *)
(***************************************************************************)
HexDigits == "0123456789abcdef"
HexDigit(n) == SubSeq(HexDigits, n + 1, n + 1)
HexByte(b) == HexDigit(b \div 16) \o HexDigit(b % 16)

RECURSIVE EncodeToString(_)
EncodeToString(bytes) ==
    IF bytes = <<>> THEN ""
    ELSE HexByte(Head(bytes)) \o EncodeToString(Tail(bytes))

Zeros(n) == [i \in 1..n |-> 0]

\* common.Hash.Bytes(): the 32 bytes of a hash, big endian; hashes of the
\* model are numbers below 256, so only the last byte is not zero.
HashBytes(h) == Zeros(31) \o <<h>>

(***************************************************************************)
(* fakevm.Memory, the MemoryImage of the design: a growable zero-filled    *)
(* byte buffer.  The image is the sequence of its bytes.                   *)
(***************************************************************************)
NewMemory == <<>>

\* resize(newSize): logical length newSize, old content kept for the
\* overlapping prefix, newly exposed bytes zero.
Resize(mem, size) ==
    [i \in 1..size |-> IF i <= Len(mem) THEN mem[i] ELSE 0]

\* write(offset, size, data) needs offset + size <= length; otherwise it is
\* a fatal precondition failure.
SetInBounds(mem, offset, size) == offset + size <= Len(mem)

SetBytes(mem, offset, size, value) ==
    [i \in 1..Len(mem) |->
        IF i - 1 >= offset /\ i - 1 < offset + size
        THEN value[i - offset] ELSE mem[i]]

Data(mem) == mem

(***************************************************************************)
(* buildStructLogs: one iteration of the loop over stateStructLogs.        *)
(***************************************************************************)
SHA3RenameMut(op) == op
SHA3Rename(op) == IF op = "SHA3" THEN "KECCAK256" ELSE op

\* the else-if branch of the opcode test: the step is skipped (continue)
IsIgnoredStopMut(structLog) == structLog.Op = "STOP"
IsIgnoredStop(structLog) ==
    structLog.Op # "SHA3" /\ structLog.Op = "STOP" /\ structLog.Pc = 0

\* the stack field: the non-nil items of the raw stack, dereferenced
RECURSIVE BuildStack(_)
BuildStackMut(stack) == [i \in 1..Len(stack) |-> IF stack[i] = None THEN 0 ELSE stack[i][1]]
BuildStack(stack) ==
    IF stack = <<>> THEN <<>>
    ELSE IF Head(stack) # None
         THEN <<Head(stack)[1]>> \o BuildStack(Tail(stack))
         ELSE BuildStack(Tail(stack))

\* whether the raw step's storage makes a storage field
HasStorageFieldMut(structLog, cfg) == ~cfg.DisableStorage
HasStorageField(structLog, cfg) ==
    ~cfg.DisableStorage /\ Cardinality(DOMAIN structLog.Storage) > 0

\* the storage field: hex(key) -> hex(value)
BuildStorage(storage) ==
    [k \in {EncodeToString(HashBytes(key)) : key \in DOMAIN storage} |->
        LET key == CHOOSE x \in DOMAIN storage : EncodeToString(HashBytes(x)) = k
        IN  EncodeToString(HashBytes(storage[key]))]

\* The slice expression data[i:i+memoryChunkSize] of chunk number c
\* (i = c * memoryChunkSize) stays inside the length of data.
ChunkInBounds(data, c) == (c + 1) * memoryChunkSize <= Len(data)

\* copy(slice32Bytes, data[i:i+memoryChunkSize]) for chunk number c.  When
\* the slice expression runs past the length of data, it reads the spare
\* capacity of the backing array; those bytes are spare.
MemoryChunk(data, c, spare) ==
    [j \in 1..memoryChunkSize |->
        LET p == c * memoryChunkSize + j
        IN  IF p <= Len(data) THEN data[p] ELSE spare]

\* number of iterations of the chunk loop: i = 0, 32, ... while i < len
NumChunks(data) == (Len(data) + memoryChunkSize - 1) \div memoryChunkSize

BuildMemoryArray(data, spare) ==
    [c \in 1..NumChunks(data) |-> EncodeToString(MemoryChunk(data, c - 1, spare))]

(***************************************************************************)
(* State.                                                                  *)
(***************************************************************************)
VARIABLES
    \* buildStructLogs
    cfg,              \* the traceConfig argument
    stateStructLogs,  \* the raw steps the loop has taken so far
    structLogs,       \* the result slice
    memory,           \* the fakevm.Memory of the call
    oobRead,          \* a slice expression ran past the length of memory.Data()
    fmtPc,            \* "idle", "loop", "panic", "returned"
    \* TraceTransaction, TraceBlockByNumber, TraceBlockByHash
    reqKind,          \* the endpoint called
    reqCfg,           \* its *traceConfig argument: None or Some(config)
    lookupErr,        \* err of the block lookup: None or Some(error)
    blockTxs,         \* block.Transactions(), as hashes
    txIdx,            \* buildTraceBlock: index of the next transaction
    traces,           \* buildTraceBlock: the traces slice
    debugCalls,       \* hashes given to state.DebugTransaction so far
    receiptCalls,     \* hashes given to state.GetTransactionReceipt so far
    txErrs,           \* errors buildTraceTransaction returned so far
    txLog,            \* per call of buildTraceTransaction: what it got and gave
    resp,             \* what the endpoint returned: [result, err]
    tpc,              \* "idle", "trace", "returned", "panic"
    \* TraceBatchByNumber
    batchTxs,         \* the hashes of the batch's transactions
    receipts,         \* the receipts slice, as hashes
    receiptErrs,      \* per GetTransactionReceipt call so far: whether it failed
    requests,         \* the requests channel: its buffer and whether it is closed
    responses,        \* the responses channel: its buffer and whether it is closed
    wg,               \* the counter of the WaitGroup
    enq,              \* the enqueue loop: index of the next receipt
    index,            \* the dispatcher's index
    dpc,              \* the dispatcher goroutine: "none", "range", "exited"
    task,             \* hash -> where its loadTraceByTxHash goroutine is
    outcome,          \* hash -> what its JSONRPCCall returned
    pool,             \* the loadTraceByTxHash goroutines, counted by where they are
    wpc,              \* the goroutine of waitTimeout: "none", "waiting", "closed"
    selected,         \* the case the select of waitTimeout takes
    pendingAtFire,    \* the WaitGroup counter when the timer fired, -1 before
    bresp,            \* what the endpoint returned: [result, err]
    bpc               \* the request goroutine

fmtVars == <<cfg, stateStructLogs, structLogs, memory, oobRead, fmtPc>>
traceVars == <<reqKind, reqCfg, lookupErr, blockTxs, txIdx, traces,
               debugCalls, receiptCalls, txErrs, txLog, resp, tpc>>

batchVars == <<batchTxs, receipts, receiptErrs, requests, responses, wg, enq, index, dpc,
               task, outcome, pool, wpc, selected, pendingAtFire, bresp, bpc>>

vars == <<fmtVars, traceVars, batchVars>>

(***************************************************************************)
(* Inputs of buildStructLogs.                                              *)
(***************************************************************************)
RawStep(pc, op, stack, storage, memSize, memOffset, mem) ==
    [Pc |-> pc, Op |-> op, Gas |-> 100 - pc, GasCost |-> 3, Depth |-> 1,
     Err |-> IF op = "REVERT" THEN Some("execution reverted") ELSE None,
     Stack |-> stack, Storage |-> storage, RefundCounter |-> 0,
     MemorySize |-> memSize, MemoryOffset |-> memOffset, Memory |-> mem]

NoStorage == [k \in {} |-> 0]
Fill(n, b) == [i \in 1..n |-> b]

\* a memory part of a raw step: <<MemorySize, MemoryOffset, Memory>>
MemParts ==
    { <<0, 0, <<>>>>, <<0, 0, <<7>>>>,
      <<32, 0, <<>>>>, <<32, 0, <<170>>>>, <<32, 31, <<187, 204>>>>,
      <<64, 30, <<1, 2, 3, 4>>>>,
      <<70, 0, Fill(70, 221)>> }

\* steps that vary opcode, pc, stack and storage; each writes one byte to a
\* memory of 32 bytes
GeneralSteps ==
    { RawStep(o[2], o[1], st, sg, 32, 0, <<170>>) :
        o \in { <<"STOP", 0>>, <<"STOP", 1>>, <<"SHA3", 0>>, <<"REVERT", 0>> },
        st \in { <<>>, <<None>>, <<Some(10), None, Some(11)>> },
        sg \in { NoStorage, (1 :> 2) @@ (3 :> 4) } }

\* steps that vary the memory part
MemorySteps ==
    { RawStep(o[2], o[1], <<>>, NoStorage, m[1], m[2], m[3]) :
        o \in { <<"STOP", 0>>, <<"MSTORE", 1>> }, m \in MemParts }

\* bytes a read of the spare capacity of a backing array can give
SpareBytes == {0, 238}

TraceConfigs ==
    [DisableStorage : BOOLEAN, DisableStack : BOOLEAN, EnableMemory : BOOLEAN]

(***************************************************************************)
(* buildStructLogs as a state machine: the state after lines 333-334,     *)
(* FormatStep for one iteration of the loop, FormatReturn for the return   *)
(* after the last step.                                                    *)
(***************************************************************************)
\* the else branch of the memory block: the step reports memory size 0
MemoryOnZeroSizeMut(mem) == [memory |-> mem, field |-> None]
MemoryOnZeroSize(mem) == [memory |-> NewMemory, field |-> Some(<<>>)]

\* What the memory block does to the image and to the entry's memory field,
\* for a retained step.  capOk: the backing array of memory.Data() has the
\* capacity every slice expression of the chunk loop asks for; spare: the
\* bytes of that spare capacity.
MemoryBlock(structLog, mem, capOk, spare) ==
    LET mem1 == Resize(mem, structLog.MemorySize)
        hasWrite == Len(structLog.Memory) > 0
        setPanics == hasWrite /\
            ~SetInBounds(mem1, structLog.MemoryOffset, Len(structLog.Memory))
        mem2 == IF hasWrite /\ ~setPanics
                THEN SetBytes(mem1, structLog.MemoryOffset,
                              Len(structLog.Memory), structLog.Memory)
                ELSE mem1
        render == structLog.MemorySize > 0
        past == render /\ ~setPanics /\
                \E c \in 0..(NumChunks(Data(mem2)) - 1) : ~ChunkInBounds(Data(mem2), c)
    IN  IF setPanics
        THEN [panic |-> TRUE, oob |-> FALSE, memory |-> mem1, field |-> None]
        ELSE IF render
        THEN [panic |-> past /\ ~capOk, oob |-> past, memory |-> mem2,
              field |-> Some(BuildMemoryArray(Data(mem2), spare))]
        ELSE [panic |-> FALSE, oob |-> FALSE] @@ MemoryOnZeroSize(mem2)

StructLogRes(structLog, c, memField) ==
    [Pc |-> structLog.Pc,
     Op |-> SHA3Rename(structLog.Op),
     Gas |-> structLog.Gas,
     GasCost |-> structLog.GasCost,
     Depth |-> structLog.Depth,
     Error |-> IF structLog.Err # None THEN structLog.Err[1] ELSE "",
     RefundCounter |-> structLog.RefundCounter,
     Stack |-> IF ~c.DisableStack THEN Some(BuildStack(structLog.Stack)) ELSE None,
     Memory |-> IF c.EnableMemory THEN memField ELSE None,
     Storage |-> IF HasStorageField(structLog, c)
                 THEN Some(BuildStorage(structLog.Storage)) ELSE None]

\* One iteration of the loop: the result slice, the image, whether a slice
\* expression ran past the image, and whether the iteration panicked.
FormatIteration(structLog, c, logs, mem, capOk, spare) ==
    IF IsIgnoredStop(structLog)
    THEN [structLogs |-> logs, memory |-> mem, oob |-> FALSE, panic |-> FALSE]
    ELSE LET mb == MemoryBlock(structLog, mem, capOk, spare)
         IN  IF c.EnableMemory /\ mb.panic
             THEN [structLogs |-> logs, memory |-> mb.memory,
                   oob |-> mb.oob, panic |-> TRUE]
             ELSE [structLogs |-> Append(logs, StructLogRes(structLog, c, mb.field)),
                   memory |-> IF c.EnableMemory THEN mb.memory ELSE mem,
                   oob |-> c.EnableMemory /\ mb.oob, panic |-> FALSE]

\* The capacity and the spare bytes of the backing array matter only when
\* the image's length is not a multiple of the chunk size.
CapacityChoices(structLog) ==
    IF structLog.MemorySize % memoryChunkSize = 0 THEN {TRUE} ELSE BOOLEAN
SpareChoices(structLog) ==
    IF structLog.MemorySize % memoryChunkSize = 0 THEN {0} ELSE SpareBytes

FormatStep(steps, max) ==
    /\ fmtPc = "loop"
    /\ Len(stateStructLogs) < max
    /\ \E structLog \in steps :
       \E capOk \in CapacityChoices(structLog), spare \in SpareChoices(structLog) :
        LET it == FormatIteration(structLog, cfg, structLogs, memory, capOk, spare)
        IN  /\ stateStructLogs' = Append(stateStructLogs, structLog)
            /\ structLogs' = it.structLogs
            /\ memory' = it.memory
            /\ oobRead' = (oobRead \/ it.oob)
            /\ fmtPc' = IF it.panic THEN "panic" ELSE fmtPc
    /\ UNCHANGED cfg

FormatReturn ==
    /\ fmtPc = "loop"
    /\ fmtPc' = "returned"
    /\ UNCHANGED <<cfg, stateStructLogs, structLogs, memory, oobRead>>

FormatGeneralStep == FormatStep(GeneralSteps, MaxSteps)
FormatMemoryStep == FormatStep(MemorySteps, MaxMemSteps)

FormatIdle ==
    /\ cfg = [DisableStorage |-> FALSE, DisableStack |-> FALSE, EnableMemory |-> FALSE]
    /\ stateStructLogs = <<>>
    /\ structLogs = <<>>
    /\ memory = NewMemory
    /\ oobRead = FALSE
    /\ fmtPc = "idle"

(***************************************************************************)
(* isBuiltInTracer, isJSCustomTracer                                       *)
(***************************************************************************)
\* strings.Contains
Contains(str, sub) ==
    \E i \in 0..(Len(str) - Len(sub)) : SubSeq(str, i + 1, i + Len(sub)) = sub

isBuiltInTracerMut(tracer) ==
    tracer \in {"callTracer", "4byteTracer", "prestateTracer"}
isBuiltInTracer(tracer) ==
    tracer \in {"callTracer", "4byteTracer", "prestateTracer", "noopTracer"}

isJSCustomTracerMut(tracer) == Contains(tracer, "result") \/ Contains(tracer, "fault")
isJSCustomTracer(tracer) == Contains(tracer, "result") /\ Contains(tracer, "fault")

(***************************************************************************)
(* buildTraceTransaction                                                   *)
(***************************************************************************)
defaultTraceConfig ==
    [DisableStorage |-> FALSE, DisableStack |-> FALSE, EnableMemory |-> FALSE,
     EnableReturnData |-> FALSE, Tracer |-> None]

\* rpcErrorResponse(code, message, err): logs and returns (nil, RPC error)
rpcErrorResponse(message) == [result |-> None, err |-> Some(message)]

\* buildStructLogs over a whole step sequence: the outcomes it can have.
\* Where a slice expression of the chunk loop runs past the image, the
\* capacity of the backing array and its spare bytes decide, step by step.
RECURSIVE BuildStructLogsFrom(_, _, _, _)
BuildStructLogsFrom(rest, c, logs, mem) ==
    IF rest = <<>> THEN {[structLogs |-> logs, panic |-> FALSE]}
    ELSE UNION {
            LET it == FormatIteration(Head(rest), c, logs, mem, capOk, spare)
            IN  IF it.panic THEN {[structLogs |-> logs, panic |-> TRUE]}
                ELSE BuildStructLogsFrom(Tail(rest), c, it.structLogs, it.memory)
            : capOk \in CapacityChoices(Head(rest)),
              spare \in SpareChoices(Head(rest)) }

BuildStructLogs(stateLogs, c) == BuildStructLogsFrom(stateLogs, c, <<>>, NewMemory)

\* the tracer check of buildTraceTransaction
TracerRejected(traceCfg) ==
    /\ traceCfg.Tracer # None
    /\ traceCfg.Tracer[1] # ""
    /\ ~isBuiltInTracer(traceCfg.Tracer[1])
    /\ ~isJSCustomTracer(traceCfg.Tracer[1])

\* whether the result the executor rendered for the tracer is returned as it
\* is: traceCfg.Tracer != nil && *traceCfg.Tracer != "" &&
\* len(result.ExecutorTraceResult) > 0
ReturnsTracerResultMut(traceCfg, result) ==
    /\ traceCfg.Tracer # None
    /\ isBuiltInTracer(traceCfg.Tracer[1])
    /\ Len(result.ExecutorTraceResult) > 0
ReturnsTracerResult(traceCfg, result) ==
    /\ traceCfg.Tracer # None
    /\ traceCfg.Tracer[1] # ""
    /\ Len(result.ExecutorTraceResult) > 0

\* the traceConfig buildTraceTransaction works with
TraceCfgOf(cfgArg) == IF cfgArg = None THEN defaultTraceConfig ELSE cfgArg[1]

\* the outcomes buildStructLogs can have for what state.DebugTransaction
\* returned
FormatOutcomes(cfgArg, dbg) ==
    IF dbg.err # None THEN {[structLogs |-> <<>>, panic |-> FALSE]}
    ELSE BuildStructLogs(dbg.result.StructLogs, TraceCfgOf(cfgArg))

\* what buildTraceTransaction gives when it returns (result, err)
Returned(result, err, debug, receipt, formatted) ==
    [result |-> result, err |-> err, debug |-> debug, receipt |-> receipt,
     formatted |-> formatted, panic |-> FALSE]

\* buildTraceTransaction(hash, cfg): dbg is what state.DebugTransaction
\* returns, [err, result], rcpt what state.GetTransactionReceipt returns,
\* [err, status], fmt the outcome of buildStructLogs.  debug and receipt tell
\* which of the two were called, formatted whether buildStructLogs was, panic
\* whether it panicked, so that there is no return.
buildTraceTransaction(hash, cfgArg, dbg, rcpt, fmt) ==
    LET traceCfg == TraceCfgOf(cfgArg)
    IN  IF TracerRejected(traceCfg)
        THEN Returned(None, rpcErrorResponse("invalid tracer").err, FALSE, FALSE, FALSE)
        ELSE IF dbg.err = Some("ErrNotFound")
        THEN Returned(None, rpcErrorResponse("transaction not found").err,
                      TRUE, FALSE, FALSE)
        ELSE IF dbg.err # None
        THEN Returned(None, Some("failed to get trace"), TRUE, FALSE, FALSE)
        ELSE IF ReturnsTracerResult(traceCfg, dbg.result)
        THEN Returned(Some(dbg.result.ExecutorTraceResult), None, TRUE, FALSE, FALSE)
        ELSE IF rcpt.err # None
        THEN Returned(None, Some("failed to tx receipt"), TRUE, TRUE, FALSE)
        ELSE IF fmt.panic
        THEN [result |-> None, err |-> None, debug |-> TRUE, receipt |-> TRUE,
              formatted |-> TRUE, panic |-> TRUE]
        ELSE Returned(Some(
                [Gas |-> dbg.result.GasUsed,
                 Failed |-> (rcpt.status = "ReceiptStatusFailed"),
                 ReturnValue |-> IF traceCfg.EnableReturnData
                                 THEN Some(EncodeToString(dbg.result.ReturnValue))
                                 ELSE None,
                 StructLogs |-> fmt.structLogs]),
              None, TRUE, TRUE, TRUE)

(***************************************************************************)
(* Inputs of the trace endpoints.                                          *)
(***************************************************************************)
TracerInputs ==
    { None, Some(""), Some("callTracer"), Some("4byteTracer"),
      Some("prestateTracer"), Some("noopTracer"), Some("bogus"),
      Some("{ result: function(){}, fault: function(){} }"),
      Some("result"), Some("fault"), Some("calltracer"), Some("noopTracer2"),
      Some("default: xresulty") }

ConfigInputs ==
    {None} \cup
    { Some([DisableStorage |-> FALSE, DisableStack |-> FALSE, EnableMemory |-> TRUE,
            EnableReturnData |-> FALSE, Tracer |-> None]) } \cup
    { Some([DisableStorage |-> FALSE, DisableStack |-> FALSE, EnableMemory |-> FALSE,
            EnableReturnData |-> rd, Tracer |-> t]) :
        rd \in BOOLEAN, t \in TracerInputs }

\* what state.DebugTransaction can return
DebugOutcomes ==
    { [err |-> Some("ErrNotFound"), result |-> None],
      [err |-> Some("executor error"), result |-> None] } \cup
    { [err |-> None,
       result |-> [GasUsed |-> 21000, ReturnValue |-> <<1, 35>>,
                   ExecutorTraceResult |-> e, StructLogs |-> l]] :
        e \in {"", "{calls}"},
        l \in { <<>>,
                <<RawStep(0, "SHA3", <<Some(10)>>, NoStorage, 0, 0, <<>>),
                  RawStep(0, "STOP", <<>>, NoStorage, 0, 0, <<>>)>>,
                <<RawStep(1, "MSTORE", <<>>, NoStorage, 32, 0, <<170>>),
                  RawStep(2, "MSTORE", <<>>, NoStorage, 32, 31, <<187, 204>>)>>,
                <<RawStep(1, "MSTORE", <<>>, NoStorage, 70, 0, Fill(70, 221))>> } }

\* what state.GetTransactionReceipt can return
ReceiptOutcomes ==
    { [err |-> Some("receipt error"), status |-> "none"],
      [err |-> None, status |-> "ReceiptStatusFailed"],
      [err |-> None, status |-> "ReceiptStatusSuccessful"] }

\* what the block lookup can return: the error, and whether the block
\* pointer is nil
BlockOutcomes ==
    { [err |-> None, nilBlock |-> FALSE],
      [err |-> Some("ErrNotFound"), nilBlock |-> TRUE],
      [err |-> Some("db error"), nilBlock |-> TRUE],
      [err |-> Some("db error"), nilBlock |-> FALSE] }

TxHashes(n) == [i \in 1..n |-> i]

(***************************************************************************)
(* TraceTransaction                                                        *)
(***************************************************************************)
Called(calls, hash, was) == IF was THEN Append(calls, hash) ELSE calls

\* the entry of txLog for a call: the hash, what state.DebugTransaction
\* returned if it was called, and what buildTraceTransaction returned
Logged(hash, dbg, r) ==
    [hash |-> hash, dbg |-> IF r.debug THEN Some(dbg) ELSE None, ret |-> r]

TraceTransaction ==
    /\ tpc = "idle" /\ reqKind = "TraceTransaction"
    /\ \E dbg \in DebugOutcomes, rcpt \in ReceiptOutcomes :
       \E fmt \in FormatOutcomes(reqCfg, dbg) :
        LET r == buildTraceTransaction(1, reqCfg, dbg, rcpt, fmt)
        IN  /\ debugCalls' = Called(debugCalls, 1, r.debug)
            /\ receiptCalls' = Called(receiptCalls, 1, r.receipt)
            /\ txLog' = Append(txLog, Logged(1, dbg, r))
            /\ IF r.panic
               THEN /\ tpc' = "panic"
                    /\ UNCHANGED <<resp, txErrs>>
               ELSE /\ resp' = [result |-> r.result, err |-> r.err]
                    /\ txErrs' = Append(txErrs, r.err)
                    /\ tpc' = "returned"
    /\ UNCHANGED <<reqKind, reqCfg, lookupErr, blockTxs, txIdx, traces>>

(***************************************************************************)
(* TraceBlockByNumber, TraceBlockByHash and buildTraceBlock                *)
(***************************************************************************)
IsBlockRequest == reqKind \in {"TraceBlockByNumber", "TraceBlockByHash"}

\* number.GetNumericBlockNumber fails: the request returns its error
TraceBlockNumberError ==
    /\ tpc = "idle" /\ reqKind = "TraceBlockByNumber"
    /\ resp' = [result |-> None, err |-> Some("invalid block number")]
    /\ tpc' = "returned"
    /\ UNCHANGED <<reqKind, reqCfg, lookupErr, blockTxs, txIdx, traces,
                   debugCalls, receiptCalls, txErrs, txLog>>

\* the block lookup and the tests of its err
TraceBlockLookup ==
    /\ tpc = "idle" /\ IsBlockRequest
    /\ \E b \in BlockOutcomes, n \in 0..MaxBlockTxs :
        /\ lookupErr' = b.err
        /\ IF b.err = Some("ErrNotFound")
           THEN /\ resp' = [result |-> None, err |-> Some("block not found")]
                /\ tpc' = "returned"
                /\ UNCHANGED blockTxs
           ELSE IF b.nilBlock
           THEN \* block.Transactions() on a nil block
                /\ tpc' = "panic"
                /\ UNCHANGED <<resp, blockTxs>>
           ELSE /\ blockTxs' = TxHashes(n)
                /\ tpc' = "trace"
                /\ UNCHANGED resp
    /\ UNCHANGED <<reqKind, reqCfg, txIdx, traces, debugCalls, receiptCalls, txErrs,
                   txLog>>

\* what the endpoint returns once buildTraceBlock has returned
\* (traces, rpcErr): the test is on err, the error of the block lookup
TraceBlockResponse(err, tr, rpcErr) ==
    IF err # None THEN [result |-> None, err |-> rpcErr]
    ELSE [result |-> tr, err |-> None]

\* one iteration of the loop of buildTraceBlock; a failing transaction ends
\* buildTraceBlock and the request
TraceBlockTx ==
    /\ tpc = "trace" /\ txIdx <= Len(blockTxs)
    /\ \E dbg \in DebugOutcomes, rcpt \in ReceiptOutcomes :
       \E fmt \in FormatOutcomes(reqCfg, dbg) :
        LET hash == blockTxs[txIdx]
            r == buildTraceTransaction(hash, reqCfg, dbg, rcpt, fmt)
            failed == rpcErrorResponse("failed to get trace for transaction")
        IN  /\ debugCalls' = Called(debugCalls, hash, r.debug)
            /\ receiptCalls' = Called(receiptCalls, hash, r.receipt)
            /\ txLog' = Append(txLog, Logged(hash, dbg, r))
            /\ IF r.panic
               THEN /\ tpc' = "panic"
                    /\ UNCHANGED <<resp, txErrs, txIdx, traces>>
               ELSE IF r.err # None
               THEN /\ txErrs' = Append(txErrs, r.err)
                    /\ resp' = TraceBlockResponse(lookupErr, failed.result, failed.err)
                    /\ tpc' = "returned"
                    /\ UNCHANGED <<txIdx, traces>>
               ELSE /\ txErrs' = Append(txErrs, r.err)
                    /\ traces' = Append(traces, [Result |-> r.result[1]])
                    /\ txIdx' = txIdx + 1
                    /\ UNCHANGED <<resp, tpc>>
    /\ UNCHANGED <<reqKind, reqCfg, lookupErr, blockTxs>>

\* the loop of buildTraceBlock is over: it returns (traces, nil)
TraceBlockDone ==
    /\ tpc = "trace" /\ txIdx > Len(blockTxs)
    /\ resp' = TraceBlockResponse(lookupErr, Some(traces), None)
    /\ tpc' = "returned"
    /\ UNCHANGED <<reqKind, reqCfg, lookupErr, blockTxs, txIdx, traces,
                   debugCalls, receiptCalls, txErrs, txLog>>

TraceIdle ==
    /\ reqKind = "none" /\ reqCfg = None /\ lookupErr = None
    /\ blockTxs = <<>> /\ txIdx = 1 /\ traces = <<>>
    /\ debugCalls = <<>> /\ receiptCalls = <<>> /\ txErrs = <<>> /\ txLog = <<>>
    /\ resp = [result |-> None, err |-> None]
    /\ tpc = "idle"

(***************************************************************************)
(* TraceBatchByNumber.  The goroutines are the request goroutine (bpc),    *)
(* the dispatcher, one loadTraceByTxHash per dispatched receipt, and the   *)
(* goroutine of waitTimeout.                                               *)
(***************************************************************************)
BatchHashes == 1..MaxBatchTxs

\* The batches with more transactions than the requests channel holds.  Their
\* hashes are apart from BatchHashes.
WideSizes == (bufferSize + 1)..(bufferSize + MaxOver)
WideTxs(n) == [i \in 1..n |-> MaxBatchTxs + i]
Hashes == 1..(MaxBatchTxs + bufferSize + MaxOver)
WideHashes == Hashes \ BatchHashes

\* res.Result of the remote debug_traceTransaction call for a hash
RemoteResult(hash) == <<"trace", hash>>

TimeoutMessage == "failed to get traces for batch: timeout reached"

\* the batch, its transactions: what the lookups before the receipts give
BatchOutcomes ==
    {"numberError", "batchNotFound", "batchError", "txsError", "txsNotFound", "ok"}

BatchLookupOf(batches) ==
    /\ bpc = "idle"
    /\ \E o \in BatchOutcomes, txs \in batches :
        CASE o = "numberError" ->
                /\ bresp' = [result |-> None, err |-> Some("invalid batch number")]
                /\ bpc' = "returned"
                /\ UNCHANGED batchTxs
          [] o = "batchNotFound" ->
                /\ bresp' = [result |-> None, err |-> Some("batch not found")]
                /\ bpc' = "returned"
                /\ UNCHANGED batchTxs
          [] o = "batchError" ->
                \* err is not ErrNotFound: no branch returns, batch is nil
                /\ bpc' = "panic"
                /\ UNCHANGED <<bresp, batchTxs>>
          [] o = "txsError" ->
                /\ bresp' = rpcErrorResponse("couldn't load batch txs from state")
                /\ bpc' = "returned"
                /\ UNCHANGED batchTxs
          [] o = "txsNotFound" ->
                /\ batchTxs' = <<>>
                /\ bpc' = "receipts"
                /\ UNCHANGED bresp
          [] o = "ok" ->
                /\ batchTxs' = txs
                /\ bpc' = "receipts"
                /\ UNCHANGED bresp
    /\ UNCHANGED <<receiptErrs, receipts, requests, responses, wg, enq, index, dpc, task,
                   outcome, wpc, selected, pendingAtFire>>

BatchLookup == BatchLookupOf({TxHashes(n) : n \in 0..MaxBatchTxs})
BatchLookupWide == BatchLookupOf({WideTxs(n) : n \in WideSizes})

ReceiptMessage == "couldn't load receipt for tx to get trace"

\* whether the receipts loop returns after a lookup: if err != nil
ReceiptErrorReturnsMut(failed) == FALSE
ReceiptErrorReturns(failed) == failed

\* one iteration of the receipts loop
BatchLoadReceipt ==
    /\ bpc = "receipts" /\ Len(receipts) < Len(batchTxs)
    /\ \E failed \in BOOLEAN :
        /\ receiptErrs' = Append(receiptErrs, failed)
        /\ IF ReceiptErrorReturns(failed)
           THEN /\ bresp' = rpcErrorResponse(ReceiptMessage)
                /\ bpc' = "returned"
                /\ UNCHANGED receipts
           ELSE /\ receipts' = Append(receipts, batchTxs[Len(receipts) + 1])
                /\ UNCHANGED <<bresp, bpc>>
    /\ UNCHANGED <<batchTxs, requests, responses, wg, enq, index, dpc, task,
                   outcome, wpc, selected, pendingAtFire>>

\* make(chan traceBatchTransactionResponse, len(receipts))
ResponsesCapacityMut(rcpts) == 0
ResponsesCapacity(rcpts) == Len(rcpts)

\* the channels, the WaitGroup and the dispatcher are made
BatchStart ==
    /\ bpc = "receipts" /\ Len(receipts) = Len(batchTxs)
    /\ requests' = [buf |-> <<>>, cap |-> bufferSize, closed |-> FALSE]
    /\ responses' = [buf |-> <<>>, cap |-> ResponsesCapacity(receipts), closed |-> FALSE]
    /\ wg' = Len(receipts)
    /\ dpc' = "range"
    /\ index' = 0
    /\ bpc' = "enqueue"
    /\ UNCHANGED <<receiptErrs, batchTxs, receipts, enq, task, outcome, wpc, selected,
                   pendingAtFire, bresp>>

\* requests <- receipt
BatchEnqueue ==
    /\ bpc = "enqueue" /\ enq <= Len(receipts)
    /\ ~requests.closed
    /\ Len(requests.buf) < requests.cap
    /\ requests' = [requests EXCEPT !.buf = Append(@, receipts[enq])]
    /\ enq' = enq + 1
    /\ UNCHANGED <<receiptErrs, batchTxs, receipts, responses, wg, index, dpc, task, outcome,
                   wpc, selected, pendingAtFire, bresp, bpc>>

\* Whether the dispatcher is back at the range once it has started a task,
\* with running tasks not yet ended: the go statement does not wait for
\* loadTraceByTxHash.
DispatcherFreeMut(running) == running < bufferSize
DispatcherFree(running) == TRUE

\* the dispatcher takes a receipt and starts its goroutine
Dispatch ==
    /\ dpc = "range" /\ requests.buf # <<>>
    /\ DispatcherFree(Cardinality({h \in Hashes : task[h] \notin {"none", "done"}}))
    /\ requests' = [requests EXCEPT !.buf = Tail(@)]
    /\ task' = [task EXCEPT ![Head(requests.buf)] = "calling"]
    /\ index' = index + 1
    /\ UNCHANGED <<receiptErrs, batchTxs, receipts, responses, wg, enq, dpc, outcome, wpc,
                   selected, pendingAtFire, bresp, bpc>>

\* the range over requests ends when the channel is closed and empty
DispatcherExit ==
    /\ dpc = "range" /\ requests.buf = <<>> /\ requests.closed
    /\ dpc' = "exited"
    /\ UNCHANGED <<receiptErrs, batchTxs, receipts, requests, responses, wg, enq, index, task,
                   outcome, wpc, selected, pendingAtFire, bresp, bpc>>

\* whether loadTraceByTxHash goes on to send a response after the call
TaskContributesMut(o) == o # "transportError"
TaskContributes(o) == o = "ok"

\* client.JSONRPCCall returns: a transport error, an error response, or a
\* result
TaskCallReturns(h) ==
    /\ task[h] = "calling"
    /\ \E o \in {"transportError", "rpcError", "ok"} :
        /\ outcome' = [outcome EXCEPT ![h] = o]
        /\ task' = [task EXCEPT ![h] = IF TaskContributes(o) THEN "sending" ELSE "exiting"]
    /\ UNCHANGED <<receiptErrs, batchTxs, receipts, requests, responses, wg, enq, index, dpc,
                   wpc, selected, pendingAtFire, bresp, bpc>>

\* responses <- traceBatchTransactionResponse{...}
TaskSend(h) ==
    /\ task[h] = "sending"
    /\ IF responses.closed
       THEN /\ task' = [task EXCEPT ![h] = "panic"]
            /\ UNCHANGED responses
       ELSE /\ Len(responses.buf) < responses.cap
            /\ responses' = [responses EXCEPT !.buf =
                    Append(@, [TxHash |-> h, Result |-> RemoteResult(h)])]
            /\ task' = [task EXCEPT ![h] = "exiting"]
    /\ UNCHANGED <<receiptErrs, batchTxs, receipts, requests, wg, enq, index, dpc, outcome,
                   wpc, selected, pendingAtFire, bresp, bpc>>

\* wg.Done()
WgDoneMut(n) == n
WgDone(n) == n - 1

\* the deferred wg.Done()
TaskDone(h) ==
    /\ task[h] = "exiting"
    /\ IF wg = 0
       THEN /\ task' = [task EXCEPT ![h] = "panic"]
            /\ UNCHANGED wg
       ELSE /\ wg' = WgDone(wg)
            /\ task' = [task EXCEPT ![h] = "done"]
    /\ UNCHANGED <<receiptErrs, batchTxs, receipts, requests, responses, enq, index, dpc,
                   outcome, wpc, selected, pendingAtFire, bresp, bpc>>

(***************************************************************************)
(* The same goroutines, counted.  The goroutines that the dispatcher       *)
(* starts run the same function and differ only in the receipt they were   *)
(* given.  For batches wider than the requests channel the model keeps,    *)
(* in pool, how many of them are at each place of loadTraceByTxHash, and   *)
(* in the responses channel one response per send, without the hash and    *)
(* the result it carries.  Every goroutine takes every step of the code,   *)
(* in any order with the others.                                           *)
(***************************************************************************)
\* what a counted goroutine sends on responses
PooledResponse == "traceBatchTransactionResponse"

\* the counted goroutines that were started and have not ended
PoolRunning == pool.calling + pool.sending + pool.exiting

\* the dispatcher takes a receipt and starts its goroutine
PoolDispatch ==
    /\ dpc = "range" /\ requests.buf # <<>>
    /\ DispatcherFree(PoolRunning)
    /\ requests' = [requests EXCEPT !.buf = Tail(@)]
    /\ pool' = [pool EXCEPT !.calling = @ + 1]
    /\ index' = index + 1
    /\ UNCHANGED <<receiptErrs, batchTxs, receipts, responses, wg, enq, dpc, task, outcome,
                   wpc, selected, pendingAtFire, bresp, bpc>>

\* client.JSONRPCCall of one of the goroutines returns: a transport error,
\* an error response, or a result
PoolCallReturns ==
    /\ pool.calling > 0
    /\ \E o \in {"transportError", "rpcError", "ok"} :
        pool' = IF TaskContributes(o)
                THEN [pool EXCEPT !.calling = @ - 1, !.sending = @ + 1]
                ELSE [pool EXCEPT !.calling = @ - 1, !.exiting = @ + 1]
    /\ UNCHANGED <<receiptErrs, batchTxs, receipts, requests, responses, wg, enq, index, dpc,
                   task, outcome, wpc, selected, pendingAtFire, bresp, bpc>>

\* responses <- traceBatchTransactionResponse{...}
PoolSend ==
    /\ pool.sending > 0
    /\ IF responses.closed
       THEN /\ pool' = [pool EXCEPT !.sending = @ - 1, !.panic = @ + 1]
            /\ UNCHANGED responses
       ELSE /\ Len(responses.buf) < responses.cap
            /\ responses' = [responses EXCEPT !.buf = Append(@, PooledResponse)]
            /\ pool' = [pool EXCEPT !.sending = @ - 1, !.exiting = @ + 1]
    /\ UNCHANGED <<receiptErrs, batchTxs, receipts, requests, wg, enq, index, dpc, task,
                   outcome, wpc, selected, pendingAtFire, bresp, bpc>>

\* the deferred wg.Done()
PoolDone ==
    /\ pool.exiting > 0
    /\ IF wg = 0
       THEN /\ pool' = [pool EXCEPT !.exiting = @ - 1, !.panic = @ + 1]
            /\ UNCHANGED wg
       ELSE /\ wg' = WgDone(wg)
            /\ pool' = [pool EXCEPT !.exiting = @ - 1, !.done = @ + 1]
    /\ UNCHANGED <<receiptErrs, batchTxs, receipts, requests, responses, enq, index, dpc,
                   task, outcome, wpc, selected, pendingAtFire, bresp, bpc>>

\* waitTimeout is entered: its goroutine starts, the timer is armed and the
\* request goroutine blocks in the select
BatchWait ==
    /\ bpc = "enqueue" /\ enq > Len(receipts)
    /\ wpc' = "waiting"
    /\ bpc' = "select"
    /\ UNCHANGED <<receiptErrs, batchTxs, receipts, requests, responses, wg, enq, index, dpc,
                   task, outcome, selected, pendingAtFire, bresp>>

\* wg.Wait() returns
WaitReturnsMut(n) == n <= 1
WaitReturns(n) == n = 0

\* wg.Wait() returns and c is closed; a blocked select takes the case of the
\* event that comes first
WaiterDone ==
    /\ wpc = "waiting" /\ WaitReturns(wg)
    /\ wpc' = "closed"
    /\ selected' = IF selected = "none" THEN "done" ELSE selected
    /\ UNCHANGED <<receiptErrs, batchTxs, receipts, requests, responses, wg, enq, index, dpc,
                   task, outcome, pendingAtFire, bresp, bpc>>

\* the select of waitTimeout has the case <-time.After(timeout)
DeadlineArmedMut(pc) == FALSE
DeadlineArmed(pc) == pc = "select"

\* the timer of time.After(timeout) fires while the select is blocked
TimerFires ==
    /\ DeadlineArmed(bpc) /\ selected = "none"
    /\ selected' = "timeout"
    /\ pendingAtFire' = wg
    /\ UNCHANGED <<receiptErrs, batchTxs, receipts, requests, responses, wg, enq, index, dpc,
                   task, outcome, wpc, bresp, bpc>>

\* what the request returns when waitTimeout returns true
TimeoutReturnMut(collected) ==
    [result |-> Some(collected), err |-> Some(TimeoutMessage)]
TimeoutReturn(collected) == rpcErrorResponse(TimeoutMessage)

\* waitTimeout returns
BatchSelect ==
    /\ bpc = "select" /\ selected # "none"
    /\ IF selected = "timeout"
       THEN /\ bresp' = TimeoutReturn(responses.buf)
            /\ bpc' = "returned"
       ELSE /\ bpc' = "closeRequests"
            /\ UNCHANGED bresp
    /\ UNCHANGED <<receiptErrs, batchTxs, receipts, requests, responses, wg, enq, index, dpc,
                   task, outcome, wpc, selected, pendingAtFire>>

\* close(requests)
CloseRequestsMut(ch) == ch
CloseRequests(ch) == [ch EXCEPT !.closed = TRUE]

BatchCloseRequests ==
    /\ bpc = "closeRequests"
    /\ requests' = CloseRequests(requests)
    /\ bpc' = "closeResponses"
    /\ UNCHANGED <<receiptErrs, batchTxs, receipts, responses, wg, enq, index, dpc, task,
                   outcome, wpc, selected, pendingAtFire, bresp>>

BatchCloseResponses ==
    /\ bpc = "closeResponses"
    /\ responses' = [responses EXCEPT !.closed = TRUE]
    /\ bpc' = "drain"
    /\ UNCHANGED <<receiptErrs, batchTxs, receipts, requests, wg, enq, index, dpc, task,
                   outcome, wpc, selected, pendingAtFire, bresp>>

\* the range over the closed responses channel, and the return
BatchDrain ==
    /\ bpc = "drain"
    /\ bresp' = [result |-> Some(responses.buf), err |-> None]
    /\ responses' = [responses EXCEPT !.buf = <<>>]
    /\ bpc' = "returned"
    /\ UNCHANGED <<receiptErrs, batchTxs, receipts, requests, wg, enq, index, dpc, task,
                   outcome, wpc, selected, pendingAtFire>>

BatchIdle ==
    /\ batchTxs = <<>> /\ receipts = <<>> /\ receiptErrs = <<>>
    /\ requests = [buf |-> <<>>, cap |-> 0, closed |-> FALSE]
    /\ responses = [buf |-> <<>>, cap |-> 0, closed |-> FALSE]
    /\ wg = 0 /\ enq = 1 /\ index = 0
    /\ dpc = "none"
    /\ task = [h \in Hashes |-> "none"]
    /\ outcome = [h \in Hashes |-> "pending"]
    /\ pool = [calling |-> 0, sending |-> 0, exiting |-> 0, done |-> 0, panic |-> 0]
    /\ wpc = "none" /\ selected = "none" /\ pendingAtFire = -1
    /\ bresp = [result |-> None, err |-> None]

(***************************************************************************)
(* Specifications.                                                         *)
(***************************************************************************)
InitFormat ==
    /\ cfg \in TraceConfigs
    /\ stateStructLogs = <<>>
    /\ structLogs = <<>>
    /\ memory = NewMemory
    /\ oobRead = FALSE
    /\ fmtPc = "loop"
    /\ TraceIdle
    /\ BatchIdle /\ bpc = "none"

InitMemory ==
    /\ InitFormat
    /\ ~cfg.DisableStorage /\ ~cfg.DisableStack

InitTrace ==
    /\ FormatIdle
    /\ reqKind \in {"TraceTransaction", "TraceBlockByNumber", "TraceBlockByHash"}
    /\ reqCfg \in ConfigInputs
    /\ lookupErr = None
    /\ blockTxs = <<>> /\ txIdx = 1 /\ traces = <<>>
    /\ debugCalls = <<>> /\ receiptCalls = <<>> /\ txErrs = <<>> /\ txLog = <<>>
    /\ resp = [result |-> None, err |-> None]
    /\ tpc = "idle"
    /\ BatchIdle /\ bpc = "none"

InitBatch ==
    /\ FormatIdle
    /\ TraceIdle
    /\ BatchIdle /\ bpc = "idle"

NextFormat ==
    \/ FormatGeneralStep /\ UNCHANGED <<traceVars, batchVars>>
    \/ FormatReturn /\ UNCHANGED <<traceVars, batchVars>>
NextMemory ==
    \/ FormatMemoryStep /\ UNCHANGED <<traceVars, batchVars>>
    \/ FormatReturn /\ UNCHANGED <<traceVars, batchVars>>
NextTrace ==
    \/ TraceTransaction /\ UNCHANGED <<fmtVars, batchVars>>
    \/ TraceBlockNumberError /\ UNCHANGED <<fmtVars, batchVars>>
    \/ TraceBlockLookup /\ UNCHANGED <<fmtVars, batchVars>>
    \/ TraceBlockTx /\ UNCHANGED <<fmtVars, batchVars>>
    \/ TraceBlockDone /\ UNCHANGED <<fmtVars, batchVars>>
NextBatch ==
    \/ BatchLookup /\ UNCHANGED <<fmtVars, traceVars, pool>>
    \/ BatchLoadReceipt /\ UNCHANGED <<fmtVars, traceVars, pool>>
    \/ BatchStart /\ UNCHANGED <<fmtVars, traceVars, pool>>
    \/ BatchEnqueue /\ UNCHANGED <<fmtVars, traceVars, pool>>
    \/ Dispatch /\ UNCHANGED <<fmtVars, traceVars, pool>>
    \/ DispatcherExit /\ UNCHANGED <<fmtVars, traceVars, pool>>
    \/ \E h \in BatchHashes :
        \/ TaskCallReturns(h) /\ UNCHANGED <<fmtVars, traceVars, pool>>
        \/ TaskSend(h) /\ UNCHANGED <<fmtVars, traceVars, pool>>
        \/ TaskDone(h) /\ UNCHANGED <<fmtVars, traceVars, pool>>
    \/ BatchWait /\ UNCHANGED <<fmtVars, traceVars, pool>>
    \/ WaiterDone /\ UNCHANGED <<fmtVars, traceVars, pool>>
    \/ TimerFires /\ UNCHANGED <<fmtVars, traceVars, pool>>
    \/ BatchSelect /\ UNCHANGED <<fmtVars, traceVars, pool>>
    \/ BatchCloseRequests /\ UNCHANGED <<fmtVars, traceVars, pool>>
    \/ BatchCloseResponses /\ UNCHANGED <<fmtVars, traceVars, pool>>
    \/ BatchDrain /\ UNCHANGED <<fmtVars, traceVars, pool>>

SpecFormat == InitFormat /\ [][NextFormat]_vars
SpecMemory == InitMemory /\ [][NextMemory]_vars
SpecTrace == InitTrace /\ [][NextTrace]_vars
SpecBatch == InitBatch /\ [][NextBatch]_vars

\* TraceBatchByNumber with its goroutines counted, for the batches up to
\* MaxBatchTxs and for those wider than the requests channel
NextWide ==
    \/ BatchLookup /\ UNCHANGED <<fmtVars, traceVars, pool>>
    \/ BatchLookupWide /\ UNCHANGED <<fmtVars, traceVars, pool>>
    \/ BatchLoadReceipt /\ UNCHANGED <<fmtVars, traceVars, pool>>
    \/ BatchStart /\ UNCHANGED <<fmtVars, traceVars, pool>>
    \/ BatchEnqueue /\ UNCHANGED <<fmtVars, traceVars, pool>>
    \/ PoolDispatch /\ UNCHANGED <<fmtVars, traceVars>>
    \/ DispatcherExit /\ UNCHANGED <<fmtVars, traceVars, pool>>
    \/ PoolCallReturns /\ UNCHANGED <<fmtVars, traceVars>>
    \/ PoolSend /\ UNCHANGED <<fmtVars, traceVars>>
    \/ PoolDone /\ UNCHANGED <<fmtVars, traceVars>>
    \/ BatchWait /\ UNCHANGED <<fmtVars, traceVars, pool>>
    \/ WaiterDone /\ UNCHANGED <<fmtVars, traceVars, pool>>
    \/ TimerFires /\ UNCHANGED <<fmtVars, traceVars, pool>>
    \/ BatchSelect /\ UNCHANGED <<fmtVars, traceVars, pool>>
    \/ BatchCloseRequests /\ UNCHANGED <<fmtVars, traceVars, pool>>
    \/ BatchCloseResponses /\ UNCHANGED <<fmtVars, traceVars, pool>>
    \/ BatchDrain /\ UNCHANGED <<fmtVars, traceVars, pool>>
SpecWide == InitBatch /\ [][NextWide]_vars

\* The steps of the request goroutine and of the dispatcher, each a
\* goroutine that the scheduler runs when it can go on.
RequestStep ==
    /\ \/ BatchLookup \/ BatchLookupWide \/ BatchLoadReceipt \/ BatchStart
       \/ BatchEnqueue \/ BatchWait \/ BatchSelect
       \/ BatchCloseRequests \/ BatchCloseResponses \/ BatchDrain
    /\ UNCHANGED <<fmtVars, traceVars, pool>>
DispatcherStep ==
    \/ (Dispatch \/ DispatcherExit) /\ UNCHANGED <<fmtVars, traceVars, pool>>
    \/ PoolDispatch /\ UNCHANGED <<fmtVars, traceVars>>

\* The request goroutine and the dispatcher take a step when they can, and
\* the timer of time.After fires.  Nothing makes a remote call return, a task
\* go on after its call, or the goroutine of waitTimeout run.
Fairness ==
    /\ WF_vars(RequestStep)
    /\ WF_vars(DispatcherStep)
    /\ WF_vars(TimerFires /\ UNCHANGED <<fmtVars, traceVars, pool>>)
SpecWideFair == SpecWide /\ Fairness
SpecBatchFair == SpecBatch /\ Fairness

\* every endpoint
Init == InitFormat \/ InitTrace \/ InitBatch
Next == NextFormat \/ NextMemory \/ NextTrace \/ NextBatch
Spec == Init /\ [][Next]_vars

(***************************************************************************)
(* Properties of buildStructLogs.                                          *)
(***************************************************************************)
IsStopAtZero(s) == s.Op = "STOP" /\ s.Pc = 0

\* the retained raw steps (every step but a STOP at pc 0), in input order
Retained == SelectSeq(stateStructLogs, LAMBDA s : ~IsStopAtZero(s))

\* the raw step an output entry stands for
SameStep(e, s) ==
    /\ e.Pc = s.Pc /\ e.Gas = s.Gas /\ e.GasCost = s.GasCost
    /\ e.Depth = s.Depth /\ e.RefundCounter = s.RefundCounter
    /\ e.Error = (IF s.Err = None THEN "" ELSE s.Err[1])

NonNilItems(stack) ==
    LET sel == SelectSeq(stack, LAMBDA it : it # None)
    IN  [j \in 1..Len(sel) |-> sel[j][1]]

HexVal(ch) == CHOOSE n \in 0..15 : HexDigit(n) = ch
DecodeString(str) ==
    [i \in 1..(Len(str) \div 2) |->
        16 * HexVal(SubSeq(str, 2 * i - 1, 2 * i - 1)) + HexVal(SubSeq(str, 2 * i, 2 * i))]

RECURSIVE DecodeChunks(_)
DecodeChunks(chunks) ==
    IF chunks = <<>> THEN <<>>
    ELSE DecodeString(Head(chunks)) \o DecodeChunks(Tail(chunks))

\* the write of raw step s covers the byte at position p (1-based) with value b
WriteGives(s, p, b) ==
    /\ p - 1 >= s.MemoryOffset
    /\ p - 1 < s.MemoryOffset + Len(s.Memory)
    /\ s.Memory[p - s.MemoryOffset] = b

CeilDiv(n, d) == (n + d - 1) \div d

\* C4: the output of buildStructLogs is its input without the steps whose
\* opcode is STOP at pc 0: one entry for every other step, in input order,
\* and no entry for a STOP at pc 0.
C4_OutputIsInputWithoutStopAtZero ==
    fmtPc # "panic" =>
        /\ Len(structLogs) = Len(Retained)
        /\ \A i \in 1..Len(structLogs) :
            /\ SameStep(structLogs[i], Retained[i])
            /\ ~(structLogs[i].Op = "STOP" /\ structLogs[i].Pc = 0)

C4_Witness ==
    /\ fmtPc = "returned"
    /\ Len(stateStructLogs) = 2
    /\ IsStopAtZero(stateStructLogs[1])
    /\ stateStructLogs[2].Op = "STOP" /\ stateStructLogs[2].Pc = 1
    /\ Len(structLogs) = 1 /\ structLogs[1].Pc = 1

\* C5: with enableMemory, a retained step that reports memory size 0 gets an
\* empty (present) memory list, and every non-zero byte rendered for a later
\* step comes from a write made after that step.
C5_ZeroSizeResetsMemory ==
    cfg.EnableMemory =>
        \A i \in 1..Len(structLogs) :
            Retained[i].MemorySize = 0 =>
                /\ structLogs[i].Memory = Some(<<>>)
                /\ \A j \in (i + 1)..Len(structLogs) :
                    LET img == DecodeChunks(structLogs[j].Memory[1])
                    IN  \A p \in 1..Len(img) :
                            (p <= Retained[j].MemorySize /\ img[p] # 0) =>
                                \E k \in (i + 1)..j : WriteGives(Retained[k], p, img[p])

C5_Witness ==
    /\ cfg.EnableMemory
    /\ Len(structLogs) = 3
    /\ structLogs[1].Memory = Some(<<EncodeToString(<<170>> \o Zeros(31))>>)
    /\ Retained[2].MemorySize = 0 /\ structLogs[2].Memory = Some(<<>>)
    /\ Retained[3].MemorySize = 32 /\ Retained[3].Memory = <<>>
    /\ structLogs[3].Memory = Some(<<EncodeToString(Zeros(32))>>)

\* C6: with enableMemory, a retained step that reports memory size n > 0 has
\* a memory field of ceil(n/32) chunks of 64 hex characters each, which in
\* order give the image's content, zero padded on the right; building the
\* chunks never reads outside the image (nor fails on such a read).
C6_ChunksOfAnySize ==
    (/\ cfg.EnableMemory
     /\ stateStructLogs # <<>>
     /\ ~IsStopAtZero(stateStructLogs[Len(stateStructLogs)])
     /\ stateStructLogs[Len(stateStructLogs)].MemorySize > 0
     /\ SetInBounds(memory, stateStructLogs[Len(stateStructLogs)].MemoryOffset,
                    Len(stateStructLogs[Len(stateStructLogs)].Memory)))
    => LET n == stateStructLogs[Len(stateStructLogs)].MemorySize
           e == structLogs[Len(structLogs)]
       IN  /\ ~oobRead
           /\ fmtPc # "panic"
           /\ Len(structLogs) = Len(Retained)
           /\ e.Memory # None
           /\ Len(e.Memory[1]) = CeilDiv(n, memoryChunkSize)
           /\ \A c \in 1..Len(e.Memory[1]) : Len(e.Memory[1][c]) = 2 * memoryChunkSize
           /\ DecodeChunks(e.Memory[1]) =
                memory \o Zeros(CeilDiv(n, memoryChunkSize) * memoryChunkSize - n)

\* C7: an entry has a storage field exactly when disableStorage is false and
\* its raw step has a storage write; the field then has one entry per write,
\* hex(key) -> hex(value), and is never an empty map.
C7_StorageField ==
    \A i \in 1..Len(structLogs) :
        LET e == structLogs[i]
            s == Retained[i]
        IN  /\ (e.Storage # None) <=>
                    (~cfg.DisableStorage /\ DOMAIN s.Storage # {})
            /\ e.Storage # None =>
                /\ Cardinality(DOMAIN e.Storage[1]) = Cardinality(DOMAIN s.Storage)
                /\ DOMAIN e.Storage[1] # {}
                /\ \A k \in DOMAIN s.Storage :
                    /\ EncodeToString(HashBytes(k)) \in DOMAIN e.Storage[1]
                    /\ e.Storage[1][EncodeToString(HashBytes(k))] =
                            EncodeToString(HashBytes(s.Storage[k]))

C7_Witness ==
    /\ cfg.DisableStack /\ cfg.EnableMemory /\ ~cfg.DisableStorage
    /\ Len(structLogs) = 2
    /\ structLogs[1].Storage # None
    /\ Cardinality(DOMAIN structLogs[1].Storage[1]) = 2
    /\ structLogs[1].Stack = None
    /\ DOMAIN Retained[2].Storage = {} /\ structLogs[2].Storage = None

\* C8: with disableStack false the stack field is present and is the raw
\* stack's non-nil items in order (also when there is none); with
\* disableStack true the field is absent.
C8_StackField ==
    \A i \in 1..Len(structLogs) :
        structLogs[i].Stack =
            IF cfg.DisableStack THEN None ELSE Some(NonNilItems(Retained[i].Stack))

C8_Witness ==
    /\ ~cfg.DisableStack
    /\ Len(structLogs) = 2
    /\ Retained[1].Stack = <<Some(10), None, Some(11)>>
    /\ structLogs[1].Stack = Some(<<10, 11>>)
    /\ Retained[2].Stack = <<None>>
    /\ structLogs[2].Stack = Some(<<>>)

\* C10: an entry's op is KECCAK256 when the raw opcode is SHA3 and the raw
\* opcode otherwise; a SHA3 step always gets its entry, also at pc 0.
C10_OpcodeName ==
    /\ \A i \in 1..Len(structLogs) :
        structLogs[i].Op =
            IF Retained[i].Op = "SHA3" THEN "KECCAK256" ELSE Retained[i].Op
    /\ (fmtPc # "panic" /\ stateStructLogs # <<>>
            /\ stateStructLogs[Len(stateStructLogs)].Op = "SHA3") =>
        /\ structLogs # <<>>
        /\ structLogs[Len(structLogs)].Op = "KECCAK256"
        /\ structLogs[Len(structLogs)].Pc = stateStructLogs[Len(stateStructLogs)].Pc

C10_Witness ==
    /\ fmtPc = "returned"
    /\ Len(structLogs) = 2
    /\ stateStructLogs[1].Op = "SHA3" /\ stateStructLogs[1].Pc = 0
    /\ structLogs[1].Op = "KECCAK256"
    /\ stateStructLogs[2].Op = "STOP" /\ structLogs[2].Op = "STOP"

(***************************************************************************)
(* Properties of TraceBatchByNumber.                                       *)
(***************************************************************************)
\* the pairs of the transactions whose remote call gave a result
SuccessfulPairs ==
    { [TxHash |-> receipts[i], Result |-> RemoteResult(receipts[i])] :
        i \in { k \in 1..Len(receipts) : outcome[receipts[k]] = "ok" } }

SeqRange(q) == { q[i] : i \in 1..Len(q) }

\* C1: when the request has waited for its tasks and returns without the
\* timer having fired, every task has completed, the request returns no
\* error, and its result holds exactly one pair for every transaction whose
\* remote call succeeded and none for the others.
C1_NormalCompletion ==
    (bpc = "returned" /\ wpc # "none" /\ pendingAtFire = -1) =>
        /\ \A i \in 1..Len(receipts) : task[receipts[i]] = "done"
        /\ bresp.err = None
        /\ bresp.result # None
        /\ SeqRange(bresp.result[1]) = SuccessfulPairs
        /\ Len(bresp.result[1]) = Cardinality(SuccessfulPairs)

C1_Witness ==
    /\ bpc = "returned" /\ pendingAtFire = -1
    /\ Len(receipts) = 3
    /\ outcome[1] = "transportError" /\ outcome[2] = "ok" /\ outcome[3] = "rpcError"
    /\ bresp = [result |-> Some(<<[TxHash |-> 2, Result |-> RemoteResult(2)]>>),
                err |-> None]

\* C2: when the timer fires while a task has not completed, the request
\* returns the timeout error and no pair, whatever the tasks deposited.
C2_TimeoutAllOrNothing ==
    /\ (pendingAtFire > 0 /\ bpc # "returned") => bpc = "select"
    /\ (pendingAtFire > 0 /\ bpc = "returned") =>
        /\ bresp.err = Some(TimeoutMessage)
        /\ bresp.result = None

C2_Witness ==
    /\ bpc = "returned" /\ pendingAtFire = 1
    /\ Len(receipts) = 3
    /\ Len(responses.buf) = 2
    /\ bresp = [result |-> None, err |-> Some(TimeoutMessage)]

(***************************************************************************)
(* Properties of the trace endpoints.                                      *)
(***************************************************************************)
\* C3: a block request whose block was found and in which tracing some
\* transaction failed returns an error, and traces no transaction after the
\* failing one.
C3_BlockFailureIsReturned ==
    (/\ tpc = "returned" /\ IsBlockRequest /\ lookupErr = None
     /\ \E i \in 1..Len(txErrs) : txErrs[i] # None)
    => /\ resp.err # None
       /\ \A i \in 1..(Len(txErrs) - 1) : txErrs[i] = None

RequestedTracer == IF reqCfg = None THEN None ELSE reqCfg[1].Tracer

\* the tracers that are to be accepted
AcceptedTracer(t) ==
    \/ t = None
    \/ t[1] = ""
    \/ t[1] \in {"callTracer", "4byteTracer", "prestateTracer", "noopTracer"}
    \/ (Contains(t[1], "result") /\ Contains(t[1], "fault"))

\* C9: buildTraceTransaction fails with the invalid-tracer error exactly
\* when the requested tracer is not accepted, and then neither
\* DebugTransaction nor GetTransactionReceipt has been called; with an
\* accepted tracer every call of it reaches DebugTransaction.
C9_TracerValidation ==
    /\ \A i \in 1..Len(txErrs) :
        (txErrs[i] = Some("invalid tracer")) <=> ~AcceptedTracer(RequestedTracer)
    /\ ~AcceptedTracer(RequestedTracer) =>
        /\ debugCalls = <<>>
        /\ receiptCalls = <<>>
    /\ AcceptedTracer(RequestedTracer) => Len(debugCalls) = Len(txLog)

C9_Witness ==
    /\ tpc = "returned" /\ reqKind = "TraceTransaction"
    /\ RequestedTracer = Some("bogus")
    /\ resp = [result |-> None, err |-> Some("invalid tracer")]
    /\ debugCalls = <<>> /\ receiptCalls = <<>>

(***************************************************************************)
(* Properties of the receipts loop of TraceBatchByNumber.                  *)
(***************************************************************************)
ReceiptLookupFailed == \E i \in 1..Len(receiptErrs) : receiptErrs[i]

\* C11: when the receipt lookup of any transaction of the batch fails, the
\* request returns an error with no result, and nothing has been enqueued or
\* dispatched: the dispatcher was never started and no remote call was
\* issued for any transaction, the ones whose receipt was found included.
C11_ReceiptFailureAbortsBatch ==
    ReceiptLookupFailed =>
        /\ bpc = "returned"
        /\ bresp.result = None /\ bresp.err = Some(ReceiptMessage)
        /\ dpc = "none" /\ index = 0 /\ enq = 1
        /\ requests.buf = <<>> /\ responses.buf = <<>>
        /\ \A h \in BatchHashes : task[h] = "none" /\ outcome[h] = "pending"

\* two receipts were found and the third lookup failed
C11_Witness ==
    /\ receiptErrs = <<FALSE, FALSE, TRUE>>
    /\ receipts = <<1, 2>>
    /\ bpc = "returned" /\ bresp.err = Some(ReceiptMessage)

(***************************************************************************)
(* Properties of the tracer result of buildTraceTransaction.               *)
(***************************************************************************)
NamedTracer == RequestedTracer # None /\ RequestedTracer[1] # ""

\* the call of txLog[i] got a result from state.DebugTransaction
Traced(i) == txLog[i].dbg # None /\ txLog[i].dbg[1].err = None

Rendered(i) == txLog[i].dbg[1].result.ExecutorTraceResult

\* the call of txLog[i] returned the rendered result of the tracer as it is,
\* without a receipt lookup and without buildStructLogs
Verbatim(i) ==
    /\ ~txLog[i].ret.formatted
    /\ ~txLog[i].ret.receipt
    /\ txLog[i].hash \notin SeqRange(receiptCalls)
    /\ txLog[i].ret.err = None
    /\ txLog[i].ret.result = Some(Rendered(i))

\* C12 as stated: with a named, accepted tracer and a non-empty rendered
\* result the rendered result is returned as it is, with no receipt lookup
\* and no struct-log formatting; and the response for a named tracer is
\* never a structured-log TraceResult.
C12_NamedTracerNeverFormatted ==
    \A i \in 1..Len(txLog) :
        /\ (NamedTracer /\ Traced(i) /\ Len(Rendered(i)) > 0) => Verbatim(i)
        /\ NamedTracer => ~txLog[i].ret.formatted

\* C12, amended: with a named, accepted tracer and a non-empty rendered
\* result the rendered result is returned as it is, with no receipt lookup
\* and no struct-log formatting; the response for a named tracer is a
\* structured-log TraceResult only when the rendered result is empty.
C12_NamedTracerPassThrough ==
    \A i \in 1..Len(txLog) :
        /\ (NamedTracer /\ Traced(i) /\ Len(Rendered(i)) > 0) => Verbatim(i)
        /\ (NamedTracer /\ txLog[i].ret.formatted) =>
                (Traced(i) /\ Len(Rendered(i)) = 0)

\* a script tracer whose rendered result came back from the executor along
\* with raw steps, for the second transaction of a block
C12_Witness ==
    /\ RequestedTracer = Some("{ result: function(){}, fault: function(){} }")
    /\ Len(txLog) = 2
    /\ Traced(2) /\ Rendered(2) = "{calls}"
    /\ txLog[2].dbg[1].result.StructLogs # <<>>
    /\ Verbatim(2)
    /\ traces[2] = [Result |-> "{calls}"]


(***************************************************************************)
(* Properties of the memory image of buildStructLogs.                      *)
(***************************************************************************)
HasWrite(s) == Len(s.Memory) > 0

WriteInside(s) == s.MemoryOffset + Len(s.Memory) <= s.MemorySize

\* C13: with EnableMemory, whatever the raw steps are, every write to the
\* image lies inside the image as it was just resized: for each retained
\* step with a non-empty payload, offset + payload length <= the memory size
\* the step reports; the loop never ends in the fatal out-of-bounds write.
C13_WritesInsideImage ==
    cfg.EnableMemory =>
        /\ \A i \in 1..Len(stateStructLogs) :
                (~IsStopAtZero(stateStructLogs[i]) /\ HasWrite(stateStructLogs[i]))
                    => WriteInside(stateStructLogs[i])
        /\ fmtPc = "panic" => oobRead

\* The cumulative images, one per retained step: every raw step, a dropped
\* one included, in step order resizes the image to the size it reports and
\* applies its write; a step of size 0 resets it.
RECURSIVE ImagesFrom(_, _, _)
ImagesFrom(rest, img, out) ==
    IF rest = <<>> THEN out
    ELSE LET s == Head(rest)
             sized == Resize(img, s.MemorySize)
             written == IF HasWrite(s) /\ WriteInside(s)
                        THEN SetBytes(sized, s.MemoryOffset, Len(s.Memory), s.Memory)
                        ELSE sized
         IN  ImagesFrom(Tail(rest),
                        IF s.MemorySize = 0 THEN NewMemory ELSE written,
                        IF IsStopAtZero(s) THEN out ELSE Append(out, written))

\* C14: with EnableMemory, the memory rendered for a retained step of
\* non-zero memory size is the image of that size holding, in step order,
\* the writes of all steps since the last reset, later writes over earlier
\* ones and never-written bytes zero; the steps dropped as STOP at pc 0
\* count with the memory size they report and the write they carry.
C14_RenderedMemoryIsCumulative ==
    cfg.EnableMemory =>
        LET images == ImagesFrom(stateStructLogs, NewMemory, <<>>)
        IN  \A j \in 1..Len(structLogs) :
                Retained[j].MemorySize > 0 =>
                    /\ structLogs[j].Memory # None
                    /\ SubSeq(DecodeChunks(structLogs[j].Memory[1]),
                              1, Retained[j].MemorySize) = images[j]

(***************************************************************************)
(* Properties of the goroutines of TraceBatchByNumber.                     *)
(***************************************************************************)
\* the remote calls that are outstanding
\* C15: the capacity of the requests channel bounds the receipts that wait
\* to be dispatched, not the remote calls that are outstanding: the channel
\* never holds more than bufferSize receipts, the dispatcher can take a
\* waiting receipt and start its call however many calls are outstanding,
\* and so the calls outstanding at once are bounded by the number of
\* receipts only.
C15_QueueBoundsOnlyWaiting ==
    /\ Len(requests.buf) <= bufferSize
    /\ pool.calling <= Len(receipts)
    /\ (dpc = "range" /\ requests.buf # <<>>) => ENABLED PoolDispatch

\* all the calls of a batch of bufferSize + MaxOver transactions are
\* outstanding at once
C15_Witness ==
    /\ Len(receipts) = bufferSize + MaxOver
    /\ pool.calling = Len(receipts)
    /\ pool.calling > bufferSize

\* C16: once the batch and all its receipts are resolved, the enqueue loop
\* comes to its end and the request returns, with the result set or with the
\* timeout error, whether or not remote calls return and also for batches
\* wider than the requests channel; the dispatcher and the other goroutines
\* are scheduled fairly and the timer fires.
C16_RequestReturns ==
    /\ (bpc = "enqueue") ~> (bpc = "select")
    /\ (bpc = "enqueue") ~> (bpc = "returned" /\ (bresp.result # None \/ bresp.err # None))

\* a batch wider than the channel: every call returned, two of them with a
\* failure, and the request returned the result set
C16_Witness ==
    /\ Len(receipts) > bufferSize
    /\ pool.done = Len(receipts)
    /\ bpc = "returned" /\ selected = "done"
    /\ bresp.err = None /\ bresp.result # None
    /\ Len(bresp.result[1]) = Len(receipts) - 2

\* the tasks that a go statement started and that have not yet returned
Running == {h \in Hashes : task[h] \in {"calling", "sending", "exiting"}}

\* C17: after the timer has fired, a task that is still running goes on to
\* its end once its call returns: the responses channel is not closed and has
\* room for its response (at most one per task, capacity the number of
\* receipts), so the send neither blocks nor panics, nor does wg.Done(); and
\* the request returns the timeout error with no result, whatever the tasks
\* send afterwards.
C17_LateTasksComplete ==
    selected = "timeout" =>
        /\ ~responses.closed
        /\ \A h \in Hashes : task[h] # "panic"
        /\ Len(responses.buf) + Cardinality({h \in Hashes : task[h] = "sending"})
                <= responses.cap
        /\ \A h \in Hashes : task[h] = "sending" => ENABLED TaskSend(h)
        /\ \A h \in Hashes : task[h] = "exiting" => ENABLED TaskDone(h)
        /\ Cardinality(Running) <= wg
        /\ bpc = "returned" => (bresp.result = None /\ bresp.err = Some(TimeoutMessage))

\* three calls were outstanding when the timer fired; the request returned
\* the timeout error, and afterwards the calls returned and all three tasks
\* sent their response and ended
C17_Witness ==
    /\ pendingAtFire = 3
    /\ bpc = "returned" /\ bresp.err = Some(TimeoutMessage)
    /\ \A h \in BatchHashes : task[h] = "done" /\ outcome[h] = "ok"
    /\ Len(responses.buf) = 3
    /\ wg = 0

\* the hashes whose task a go statement has started
Started == {h \in Hashes : task[h] # "none"}

\* every receipt is at one place: not yet enqueued, waiting in the requests
\* channel, or taken by the dispatcher, which has started its task
OnePlaceEach ==
    /\ requests.buf = SubSeq(receipts, index + 1, enq - 1)
    /\ Started = {receipts[i] : i \in 1..index}
    /\ Cardinality(Started) = index

\* the WaitGroup counter is the number of receipts whose task has not ended
PendingCount ==
    /\ wg = Cardinality({i \in 1..Len(receipts) : task[receipts[i]] # "done"})
    /\ wg >= 0
    /\ \A h \in Hashes : task[h] # "panic"

\* a remote call starts only with the start of a task that did not exist,
\* a task that ended stays ended, and the end of a task takes one from the
\* WaitGroup counter
TaskRunsOnce ==
    \A h \in Hashes :
        /\ (task'[h] = "calling" /\ task[h] # "calling") =>
                (task[h] = "none" /\ index' = index + 1)
        /\ task[h] = "done" => task'[h] = "done"
        /\ (task'[h] = "done" /\ task[h] # "done") => wg' = wg - 1
        /\ (task'[h] = task[h] \/ task'[h] = "done") \/ wg' = wg

\* C18: for every resolved receipt one task is started and one remote call
\* made, none skipped, none started twice, none called again after a
\* failure; the end of a task takes exactly one from the pending count, which
\* is the number of tasks that have not ended and is never negative.
C18_OneTaskPerReceipt ==
    /\ [](dpc = "none" => Started = {})
    /\ [](dpc # "none" => (OnePlaceEach /\ PendingCount))
    /\ []((bpc = "returned" /\ selected = "done") => Started = SeqRange(receipts))
    /\ [][TaskRunsOnce]_vars

\* two tasks of a batch of three have ended, one of them after a transport
\* error, and the third receipt still waits in the requests channel
C18_Witness ==
    /\ Len(receipts) = 3
    /\ wg = 1
    /\ \E h \in Hashes : task[h] = "done" /\ outcome[h] = "transportError"
    /\ \E h \in Hashes : task[h] = "done" /\ outcome[h] = "ok"
    /\ Len(requests.buf) = 1

\* every receipt was enqueued and every task has ended
AllEnded ==
    /\ enq > Len(receipts)
    /\ wg = 0
    /\ requests.buf = <<>>
    /\ \A i \in 1..Len(receipts) : task[receipts[i]] = "done"
    /\ Running = {}

\* C19: the requests and the responses channel are closed only when every
\* receipt was enqueued and every task has ended, with the pending count at
\* zero; so no task sends on the closed responses channel, the enqueue loop
\* never sends on the closed requests channel, and while and after the
\* responses are drained no task is left that could add one.
C19_CloseAfterAllEnded ==
    /\ (requests.closed \/ responses.closed) => AllEnded
    /\ bpc \in {"closeRequests", "closeResponses", "drain"} => AllEnded
    /\ (bpc = "returned" /\ selected = "done") => AllEnded
    /\ bpc = "enqueue" => ~requests.closed
    /\ \A h \in Hashes : task[h] = "sending" => ~responses.closed
    /\ \A h \in Hashes : task[h] # "panic"

\* both channels are closed and the responses are about to be drained: of
\* three tasks, all ended, two have sent a response
C19_Witness ==
    /\ Len(receipts) = 3
    /\ requests.closed /\ responses.closed
    /\ bpc = "drain"
    /\ Len(responses.buf) = 2
    /\ AllEnded

\* the dispatcher is blocked in the range over requests, with nothing to take
DispatcherBlocked == dpc = "range" /\ requests.buf = <<>> /\ ~requests.closed

\* C20: the dispatcher ends exactly when the request completes normally:
\* then the requests channel is closed and the dispatcher leaves its range
\* loop; when waitTimeout timed out the channel is never closed, and the
\* dispatcher, once it has taken what was in the channel, stays blocked in
\* its range for ever, also after the request has returned.
C20_DispatcherEndsIffNormal ==
    /\ [](dpc = "exited" => (requests.closed /\ selected = "done"))
    /\ [](selected = "timeout" => (~requests.closed /\ dpc = "range"))
    /\ (bpc = "closeRequests") ~> (dpc = "exited")
    /\ (selected = "timeout") ~> [](bpc = "returned" /\ DispatcherBlocked)

\* the request returned the timeout error and the dispatcher, which started
\* all the tasks, is blocked
C20_Witness ==
    /\ Len(receipts) = 3
    /\ bpc = "returned" /\ selected = "timeout"
    /\ index = Len(receipts)
    /\ DispatcherBlocked

====
